---- MODULE Spec2Model ----
(***************************************************************************)
(* Model of lib/bdev/part.c: the common code for partition-like virtual    *)
(* bdevs.  One shared base (struct spdk_bdev_part_base) with its open      *)
(* descriptor, reference count and claim flag, the partitions constructed  *)
(* against it, the two-step asynchronous destruction of a partition, and   *)
(* the thread-affine close of the base descriptor.                         *)
(***************************************************************************)
EXTENDS Integers, Sequences, FiniteSets, TLC

\* ------------------------------------------------------------------ bounds
\* SPDK threads that may open the base, destroy partitions and run messages.
NumThreads == 2
\* struct spdk_bdev_part records the consumer may construct.
NumParts == 2
\* Failed spdk_bdev_part_construct_ext calls explored over one base lifetime.
MaxFail == 2

\* Blocks of the base bdev in the I/O specification.
BaseBlocks == 5
\* Largest num_blocks of a forwarded request.
MaxIoBlocks == 2
\* Width, in bits, of a reference tag and of the uint32_t offsets handed to
\* bdev_part_remap_dif: 32 in the code, scaled down so that the last block of
\* the base lies past the truncation.
TagBits == 2

Threads == 1..NumThreads
Parts == 1..NumParts

\* errno values the code names
ENODEV == 19
ENOMEM == 12

\* what spdk_bdev_open_ext may return: success, no such device, another error
OpenResults == {0, -ENODEV, -ENOMEM}
\* what spdk_bdev_register may return: success, or a rejection (-17 is -EEXIST, a name collision)
RegisterResults == {0, -17}
\* how the allocations of spdk_bdev_part_construct_ext may end: all succeed, or
\* strdup(name), strdup(product_name) or spdk_uuid_generate_sha1 fails
AllocResults == {"ok", "name", "product_name", "uuid"}

VARIABLES
    baseState,      \* the spdk_bdev_part_base record: "none", "live", "freed"
    desc,           \* base->desc as the bdev layer sees it: "null", "open", "closed"
    descThread,     \* thread on which spdk_bdev_open_ext opened desc (0: none)
    baseThread,     \* base->thread (0: NULL)
    ref,            \* base->ref
    claimed,        \* base->claimed
    tailq,          \* *base->tailq: sequence of partitions
    partState,      \* per partition: "unused", "registered", "freeing", "freed"
    bdevOwner,      \* module holding the claim on base->bdev: "none", "part", "other"
    ioDevices,      \* partitions registered as io_device
    bdevs,          \* partitions registered as bdev
    msgq,           \* per thread: queue of messages sent with spdk_thread_send_msg
    closeCount,     \* spdk_bdev_close executions on desc
    closeThread,    \* thread of the last spdk_bdev_close (0: none)
    closeTriggers,  \* times spdk_bdev_part_base_free closed or dispatched the close
    freeFnCalls,    \* base->base_free_fn invocations
    claimCount,     \* successful spdk_bdev_module_claim_bdev calls by this module
    releaseCount,   \* spdk_bdev_module_release_bdev calls by this module
    destructDone,   \* per partition: spdk_bdev_destruct_done signals
    nConstructed,   \* successful spdk_bdev_part_construct_ext calls
    nFreed,         \* completed bdev_part_free_cb callbacks
    nFailed,        \* failed spdk_bdev_part_construct_ext calls
    lastOp,         \* the handler that ran last, its inputs, pre-state and result
    ev,             \* the calls the last handler made, in program order
    ioPart,         \* the partition a request is for: internal.offset_blocks, bdev.blockcnt
    partIo,         \* the request the framework handed to the partition (part_io)
    buf,            \* reference tags of the blocks in the request's buffers
    disk,           \* reference tag stored with each block of the base bdev
    baseIo,         \* the operation issued to the base bdev, NoIo when none
    ioPc,           \* "idle", "new", "inflight", "rejected", "completed"
    submitRet,      \* what spdk_bdev_part_submit_request_ext returned
    userCb,         \* the success values stored_user_cb was invoked with
    defaultCb,      \* the statuses spdk_bdev_io_complete_base_io_status completed part_io with
    freeIoCalls,    \* spdk_bdev_free_io calls on the base I/O
    ioEv,           \* the calls the last I/O handler made, in program order
    complInfo,      \* the base completion: the device's success, the read remap's rc
    userTags,       \* the reference tags the consumer put in the buffers of its request
    readBack,       \* whether the request is the read back of a completed write
    outBase,        \* the caller's *_base of spdk_bdev_part_base_construct_ext: "unset", "base"
    baseSupported,  \* the I/O types the base bdev's io_type_supported reports as supported
    capQuery,       \* the io_type of the last bdev_part_io_type_supported call, "none" before
    capAnswer,      \* what that call returned
    uLast,          \* the last spdk_bdev_part_construct_ext call: arguments, blockcnt and uuid set
    uPrev,          \* the call before that one
    hotList,        \* a list shared by the partitions of several bases: for each partition
                    \* its base and the spdk_bdev_unregister calls made on its bdev
    hotRef,         \* per base of that list: base->ref
    hotDesc,        \* per base of that list: base->desc, "open" or "closed"
    hotArg,         \* the part_base of the last spdk_bdev_part_base_hotremove call (0: none)
    hotPrev,        \* the list as that call found it
    chHooks,        \* whether base->ch_create_cb and base->ch_destroy_cb are set
    chan,           \* per partition, its spdk_bdev_part_channel on one thread: whether the
                    \* channel exists, and ch->base_ch ("null" or "held")
    baseChHeld,     \* references on the base bdev's channel taken and not yet put
    chFailed,       \* channel creations that failed
    chLast          \* the last trampoline call: arguments, inputs, result and calls made

lifeVars == <<baseState, desc, descThread, baseThread, ref, claimed, tailq,
              partState, bdevOwner, ioDevices, bdevs, msgq, closeCount,
              closeThread, closeTriggers, freeFnCalls, claimCount, releaseCount,
              destructDone, nConstructed, nFreed, nFailed, lastOp, ev>>

ioVars == <<ioPart, partIo, buf, disk, baseIo, ioPc, submitRet, userCb, defaultCb,
            freeIoCalls, ioEv, complInfo, userTags, readBack>>

capVars == <<baseSupported, capQuery, capAnswer>>

uuidVars == <<uLast, uPrev>>

hotVars == <<hotList, hotRef, hotDesc, hotArg, hotPrev>>

chVars == <<chHooks, chan, baseChHeld, chFailed, chLast>>

auxVars == <<outBase, capVars, uuidVars, hotVars, chVars>>

vars == <<lifeVars, ioVars, auxVars>>

\* ------------------------------------------------------------- helpers
RECURSIVE RemoveFirst(_, _)
\* TAILQ_REMOVE: the list without element x
RemoveFirst(s, x) ==
    IF s = <<>> THEN <<>>
    ELSE IF Head(s) = x THEN Tail(s)
    ELSE <<Head(s)>> \o RemoveFirst(Tail(s), x)

InSeq(s, x) == \E i \in 1..Len(s) : s[i] = x

\* position of the first occurrence of x in s, 0 when absent
Pos(s, x) == IF InSeq(s, x) THEN CHOOSE i \in 1..Len(s) : s[i] = x /\ \A j \in 1..(i-1) : s[j] # x
             ELSE 0

OpRec(op, p, t, ret, stage) ==
    [op |-> op, part |-> p, thread |-> t, ret |-> ret, stage |-> stage,
     ref0 |-> ref, claimed0 |-> claimed, owner0 |-> bdevOwner,
     baseThread0 |-> baseThread, desc0 |-> desc]

\* --------------------------------------------- spdk_bdev_part_base_free
\* a base_free that never leaves the calling thread
OffAffinityThreadNever(bt, cur) == FALSE

\* the test "base->thread && base->thread != spdk_get_thread()"
OffAffinityThread(bt, cur) == bt # 0 /\ bt # cur

\* whether the close is sent as a message rather than executed inline
SendsClose(cur) == desc # "null" /\ OffAffinityThread(baseThread, cur)
ClosesInline(cur) == desc # "null" /\ ~OffAffinityThread(baseThread, cur)

\* a base_free that runs the free callback before it closes
BaseFreeEventsFnFirst(cur) ==
    <<"base_free_fn">>
    \o (IF SendsClose(cur) THEN <<"send_msg_close">>
        ELSE IF ClosesInline(cur) THEN <<"close">> ELSE <<>>)
    \o <<"free_base">>

\* the calls of spdk_bdev_part_base_free, in program order
BaseFreeEvents(cur) ==
    (IF SendsClose(cur) THEN <<"send_msg_close">>
     ELSE IF ClosesInline(cur) THEN <<"close">> ELSE <<>>)
    \o <<"base_free_fn", "free_base">>

\* the message queues after spdk_bdev_part_base_free ran on thread cur with queues q
MsgqAfterBaseFree(q, cur) ==
    IF SendsClose(cur)
    THEN [q EXCEPT ![baseThread] = Append(@, [fn |-> "bdev_part_base_free", part |-> 0])]
    ELSE q

\* spdk_bdev_part_base_free(base) called on thread cur; msgq' is left to the caller
BaseFreeEffect(cur) ==
    /\ desc' = IF ClosesInline(cur) THEN "closed" ELSE desc
    /\ closeCount' = IF ClosesInline(cur) THEN closeCount + 1 ELSE closeCount
    /\ closeThread' = IF ClosesInline(cur) THEN cur ELSE closeThread
    /\ closeTriggers' = IF desc # "null" THEN closeTriggers + 1 ELSE closeTriggers
    /\ freeFnCalls' = freeFnCalls + 1
    /\ baseState' = "freed"

\* ------------------------------------------------------------------ Init
\* no operation issued to the base bdev
NoIo == [fn |-> "none", offset |-> -1, src_offset |-> -1, num_blocks |-> 0]

\* no request has been handed to a partition
IoIdle ==
    /\ ioPart = [offset_blocks |-> 0, blockcnt |-> 0]
    /\ partIo = [type |-> "none", offset_blocks |-> 0, num_blocks |-> 0,
                 src_offset_blocks |-> 0, reftag |-> FALSE, ctx_ok |-> TRUE,
                 md_buf |-> FALSE, split |-> FALSE]
    /\ buf = <<>>
    /\ disk = <<>>
    /\ baseIo = NoIo
    /\ ioPc = "idle"
    /\ submitRet = 0
    /\ userCb = <<>>
    /\ defaultCb = <<>>
    /\ freeIoCalls = 0
    /\ ioEv = <<>>
    /\ complInfo = [success |-> FALSE, remap_rc |-> 0]
    /\ userTags = <<>>
    /\ readBack = FALSE

\* no capability query has been made
CapIdle ==
    /\ baseSupported = {}
    /\ capQuery = "none"
    /\ capAnswer = FALSE

\* no construction has been recorded
NoConstruct == [ok |-> FALSE, name |-> "", product_name |-> "", base_uuid |-> "",
                offset_blocks |-> 0, num_blocks |-> 0, opts |-> <<>>,
                blockcnt |-> 0, uuid |-> <<>>]

UuidIdle ==
    /\ uLast = NoConstruct
    /\ uPrev = NoConstruct

\* no list is shared between bases
HotIdle ==
    /\ hotList = <<>>
    /\ hotRef = <<>>
    /\ hotDesc = <<>>
    /\ hotArg = 0
    /\ hotPrev = <<>>

\* no trampoline call has been recorded
NoChCall == [op |-> "none", args |-> <<>>, get_ok |-> FALSE, hook_rc |-> 0,
             ret |-> 0, ev |-> <<>>]

\* no partition has a channel
ChIdle ==
    /\ chHooks = [create |-> FALSE, destroy |-> FALSE]
    /\ chan = [p \in Parts |-> [state |-> "none", base_ch |-> "null"]]
    /\ baseChHeld = 0
    /\ chFailed = 0
    /\ chLast = NoChCall

LifeInit ==
    /\ outBase = "unset"
    /\ baseState = "none"
    /\ desc = "null"
    /\ descThread = 0
    /\ baseThread = 0
    /\ ref = 0
    /\ claimed = FALSE
    /\ tailq = <<>>
    /\ partState = [p \in Parts |-> "unused"]
    /\ bdevOwner \in {"none", "other"}
    /\ ioDevices = {}
    /\ bdevs = {}
    /\ msgq = [t \in Threads |-> <<>>]
    /\ closeCount = 0
    /\ closeThread = 0
    /\ closeTriggers = 0
    /\ freeFnCalls = 0
    /\ claimCount = 0
    /\ releaseCount = 0
    /\ destructDone = [p \in Parts |-> 0]
    /\ nConstructed = 0
    /\ nFreed = 0
    /\ nFailed = 0
    /\ lastOp = [op |-> "init", part |-> 0, thread |-> 0, ret |-> 0, stage |-> "none",
                 ref0 |-> 0, claimed0 |-> FALSE, owner0 |-> bdevOwner,
                 baseThread0 |-> 0, desc0 |-> "null"]
    /\ ev = <<>>

Init == LifeInit /\ IoIdle /\ CapIdle /\ UuidIdle /\ HotIdle /\ ChIdle

\* ------------------------------------- spdk_bdev_part_base_construct_ext
\* an open failure path that takes every error through spdk_bdev_part_base_free
NoSuchDeviceNever(rc) == FALSE

\* "if (rc == -ENODEV) free(base)"
NoSuchDevice(rc) == rc = -ENODEV

\* rc is what spdk_bdev_open_ext returns on thread t
spdk_bdev_part_base_construct_ext(t, rc) ==
    /\ UNCHANGED <<ioVars, capVars, uuidVars, hotVars, chVars>>
    /\ baseState = "none"
    /\ lastOp' = OpRec("spdk_bdev_part_base_construct_ext", 0, t, rc, "none")
    /\ UNCHANGED <<ref, claimed, tailq, partState, bdevOwner, ioDevices, bdevs, msgq,
                   claimCount, releaseCount, destructDone, nConstructed, nFreed, nFailed>>
    /\ IF rc = 0
       THEN /\ baseState' = "live"
            /\ desc' = "open"
            /\ descThread' = t
            /\ baseThread' = t
            /\ ev' = <<"open">>
            /\ outBase' = "base"
            /\ UNCHANGED <<closeCount, closeThread, closeTriggers, freeFnCalls>>
       ELSE IF NoSuchDevice(rc)
       THEN /\ baseState' = "freed"
            /\ ev' = <<"open", "free_base">>
            /\ UNCHANGED <<desc, descThread, baseThread, closeCount, closeThread,
                           closeTriggers, freeFnCalls, outBase>>
       ELSE /\ BaseFreeEffect(t)
            /\ ev' = <<"open">> \o BaseFreeEvents(t)
            /\ UNCHANGED <<descThread, baseThread, outBase>>

\* the consumer calls spdk_bdev_part_base_free itself on a base without partitions
spdk_bdev_part_base_free(t) ==
    /\ UNCHANGED <<ioVars, auxVars>>
    /\ baseState = "live"
    /\ ref = 0
    /\ lastOp' = OpRec("spdk_bdev_part_base_free", 0, t, 0, "none")
    /\ BaseFreeEffect(t)
    /\ msgq' = MsgqAfterBaseFree(msgq, t)
    /\ ev' = BaseFreeEvents(t)
    /\ UNCHANGED <<descThread, baseThread, ref, claimed, tailq, partState, bdevOwner,
                   ioDevices, bdevs, claimCount, releaseCount, destructDone,
                   nConstructed, nFreed, nFailed>>

\* the message bdev_part_base_free(desc) runs on thread t
bdev_part_base_free(t) ==
    /\ UNCHANGED <<ioVars, auxVars>>
    /\ msgq[t] # <<>>
    /\ Head(msgq[t]).fn = "bdev_part_base_free"
    /\ lastOp' = OpRec("bdev_part_base_free", 0, t, 0, "none")
    /\ msgq' = [msgq EXCEPT ![t] = Tail(@)]
    /\ desc' = "closed"
    /\ closeCount' = closeCount + 1
    /\ closeThread' = t
    /\ ev' = <<"close">>
    /\ UNCHANGED <<baseState, descThread, baseThread, ref, claimed, tailq, partState,
                   bdevOwner, ioDevices, bdevs, closeTriggers, freeFnCalls, claimCount,
                   releaseCount, destructDone, nConstructed, nFreed, nFailed>>

\* ------------------------------------------ spdk_bdev_part_construct_ext
\* "if (!base->claimed)": the claim step is entered
NeedsClaim(c) == ~c

\* spdk_bdev_module_claim_bdev succeeds only on a bdev no module has claimed
ClaimSucceeds(owner) == owner = "none"

\* a construct that forgets the increment
RefIncMissing(r) == r

\* "base->ref++"
RefInc(r) == r + 1

\* a claim failure path that forgets the decrement
RefAfterClaimFailKept(r) == r

\* "base->ref--" on the claim failure path
RefAfterClaimFail(r) == r - 1

\* a registration failure path that keeps the reference it took
RefAfterRegisterFailKept(r) == r

\* "--base->ref" on the registration failure path
RefAfterRegisterFail(r) == r - 1

\* a registration failure path that never releases the claim
UnwindLastRefNever(r) == FALSE

\* "if (--base->ref == 0)" on the registration failure path
UnwindLastRef(r) == r = 0

\* a registration failure path that leaves base->claimed set
ClaimedAfterRegisterFailKept(first_claimed, c) == c

\* "if (first_claimed == true) base->claimed = false"
ClaimedAfterRegisterFail(first_claimed, c) == IF first_claimed THEN FALSE ELSE c

\* the early returns before the reference count is touched
ConstructAllocFail(p, alloc) ==
    /\ alloc # "ok"
    /\ lastOp' = OpRec("spdk_bdev_part_construct_ext", p, 0, -1, "alloc")
    /\ ev' = <<>>
    /\ nFailed' = nFailed + 1
    /\ UNCHANGED <<ref, claimed, tailq, partState, bdevOwner, ioDevices, bdevs,
                   claimCount, releaseCount, nConstructed>>

\* spdk_bdev_module_claim_bdev fails: "base->ref--; return -1"
ConstructClaimFail(p) ==
    /\ NeedsClaim(claimed)
    /\ ~ClaimSucceeds(bdevOwner)
    /\ lastOp' = OpRec("spdk_bdev_part_construct_ext", p, 0, -1, "claim")
    /\ ev' = <<"ref_inc", "claim_bdev_failed", "ref_dec">>
    /\ ref' = RefAfterClaimFail(RefInc(ref))
    /\ nFailed' = nFailed + 1
    /\ UNCHANGED <<claimed, tailq, partState, bdevOwner, ioDevices, bdevs,
                   claimCount, releaseCount, nConstructed>>

\* the claim step passed (taken now, or held already) and spdk_bdev_register returned rc
ConstructRegister(p, rc) ==
    LET first_claimed == NeedsClaim(claimed)
        ref1 == RefInc(ref)
        claimEv == IF first_claimed THEN <<"claim_bdev">> ELSE <<>>
        owner1 == IF first_claimed THEN "part" ELSE bdevOwner
        ref2 == RefAfterRegisterFail(ref1)
    IN
    /\ NeedsClaim(claimed) => ClaimSucceeds(bdevOwner)
    /\ claimCount' = IF first_claimed THEN claimCount + 1 ELSE claimCount
    /\ IF rc = 0
       THEN /\ lastOp' = OpRec("spdk_bdev_part_construct_ext", p, 0, 0, "done")
            /\ ev' = <<"ref_inc">> \o claimEv
                     \o <<"io_device_register", "bdev_register", "tailq_insert">>
            /\ ref' = ref1
            /\ claimed' = TRUE
            /\ bdevOwner' = owner1
            /\ ioDevices' = ioDevices \cup {p}
            /\ bdevs' = bdevs \cup {p}
            /\ tailq' = Append(tailq, p)
            /\ partState' = [partState EXCEPT ![p] = "registered"]
            /\ nConstructed' = nConstructed + 1
            /\ UNCHANGED <<releaseCount, nFailed>>
       ELSE /\ lastOp' = OpRec("spdk_bdev_part_construct_ext", p, 0, rc, "register")
            /\ ev' = <<"ref_inc">> \o claimEv
                     \o <<"io_device_register", "bdev_register_failed",
                          "io_device_unregister", "ref_dec">>
                     \o (IF UnwindLastRef(ref2) THEN <<"release_bdev">> ELSE <<>>)
            /\ ref' = ref2
            /\ bdevOwner' = IF UnwindLastRef(ref2) THEN "none" ELSE owner1
            /\ releaseCount' = IF UnwindLastRef(ref2) THEN releaseCount + 1 ELSE releaseCount
            /\ claimed' = ClaimedAfterRegisterFail(first_claimed, TRUE)
            /\ nFailed' = nFailed + 1
            /\ UNCHANGED <<ioDevices, bdevs, tailq, partState, nConstructed>>

\* spdk_bdev_part_construct_ext(part p, base, ...): alloc says how the allocations
\* end and rc is what spdk_bdev_register would return
spdk_bdev_part_construct_ext(p, alloc, rc) ==
    /\ UNCHANGED <<ioVars, auxVars>>
    /\ baseState = "live"
    /\ partState[p] = "unused"
    /\ (alloc # "ok" \/ rc # 0 \/ (NeedsClaim(claimed) /\ ~ClaimSucceeds(bdevOwner)))
          => nFailed < MaxFail
    /\ IF alloc # "ok" THEN ConstructAllocFail(p, alloc)
       ELSE IF NeedsClaim(claimed) /\ ~ClaimSucceeds(bdevOwner) THEN ConstructClaimFail(p)
       ELSE ConstructRegister(p, rc)
    /\ UNCHANGED <<baseState, desc, descThread, baseThread, msgq, closeCount, closeThread,
                   closeTriggers, freeFnCalls, destructDone, nFreed>>

\* ----------------------------------------------------- spdk_bdev_part_free
\* the value spdk_bdev_part_free returns: the operation is pending
PartFreePending == 1

\* spdk_io_device_unregister(part, bdev_part_free_cb) called on thread t: the
\* callback is sent to the thread that called unregister
spdk_bdev_part_free(p, t) ==
    /\ UNCHANGED <<ioVars, auxVars>>
    /\ partState[p] = "registered"
    /\ lastOp' = OpRec("spdk_bdev_part_free", p, t, PartFreePending, "none")
    /\ ev' = <<"io_device_unregister">>
    /\ partState' = [partState EXCEPT ![p] = "freeing"]
    /\ ioDevices' = ioDevices \ {p}
    /\ bdevs' = bdevs \ {p}
    /\ msgq' = [msgq EXCEPT ![t] = Append(@, [fn |-> "bdev_part_free_cb", part |-> p])]
    /\ UNCHANGED <<baseState, desc, descThread, baseThread, ref, claimed, tailq, bdevOwner,
                   closeCount, closeThread, closeTriggers, freeFnCalls, claimCount,
                   releaseCount, destructDone, nConstructed, nFreed, nFailed>>

\* ------------------------------------------------------- bdev_part_free_cb
\* "--base->ref"
RefDec(r) == r - 1

\* a callback that frees the base one reference early
FreeCbLastRefOffByOne(r) == r <= 1

\* "if (--base->ref == 0)"
FreeCbLastRef(r) == r = 0

\* a callback that releases the partition record before it signals the framework
FreeCbTailFreeFirst == <<"free_part", "destruct_done">>

\* the calls of bdev_part_free_cb after the list removal and the decrement
FreeCbTail == <<"destruct_done", "free_part">>

\* the framework runs bdev_part_free_cb(part) on thread t
bdev_part_free_cb(t) ==
    /\ UNCHANGED <<ioVars, auxVars>>
    /\ msgq[t] # <<>>
    /\ Head(msgq[t]).fn = "bdev_part_free_cb"
    /\ LET p == Head(msgq[t]).part
           ref1 == RefDec(ref)
           q1 == [msgq EXCEPT ![t] = Tail(@)]
       IN
       /\ lastOp' = OpRec("bdev_part_free_cb", p, t, 0, "none")
       /\ tailq' = RemoveFirst(tailq, p)
       /\ ref' = ref1
       /\ IF FreeCbLastRef(ref1)
          THEN /\ bdevOwner' = "none"
               /\ releaseCount' = releaseCount + 1
               /\ BaseFreeEffect(t)
               /\ msgq' = MsgqAfterBaseFree(q1, t)
               /\ ev' = <<"tailq_remove", "ref_dec", "release_bdev">>
                        \o BaseFreeEvents(t) \o FreeCbTail
          ELSE /\ msgq' = q1
               /\ ev' = <<"tailq_remove", "ref_dec">> \o FreeCbTail
               /\ UNCHANGED <<bdevOwner, releaseCount, desc, closeCount, closeThread,
                              closeTriggers, freeFnCalls, baseState>>
       /\ destructDone' = [destructDone EXCEPT ![p] = @ + 1]
       /\ partState' = [partState EXCEPT ![p] = "freed"]
       /\ nFreed' = nFreed + 1
    /\ UNCHANGED <<descThread, baseThread, claimed, ioDevices, bdevs, claimCount,
                   nConstructed, nFailed>>

\* -------------------------------------------------- the bdev layer's claims
\* another module claims the underlying bdev (spdk_bdev_module_claim_bdev)
OtherModuleClaim ==
    /\ UNCHANGED <<ioVars, auxVars>>
    /\ bdevOwner = "none"
    /\ bdevOwner' = "other"
    /\ lastOp' = OpRec("other_module_claim", 0, 0, 0, "none")
    /\ ev' = <<>>
    /\ UNCHANGED <<baseState, desc, descThread, baseThread, ref, claimed, tailq, partState,
                   ioDevices, bdevs, msgq, closeCount, closeThread, closeTriggers,
                   freeFnCalls, claimCount, releaseCount, destructDone, nConstructed,
                   nFreed, nFailed>>

\* the other module releases its claim (spdk_bdev_module_release_bdev)
OtherModuleRelease ==
    /\ UNCHANGED <<ioVars, auxVars>>
    /\ bdevOwner = "other"
    /\ bdevOwner' = "none"
    /\ lastOp' = OpRec("other_module_release", 0, 0, 0, "none")
    /\ ev' = <<>>
    /\ UNCHANGED <<baseState, desc, descThread, baseThread, ref, claimed, tailq, partState,
                   ioDevices, bdevs, msgq, closeCount, closeThread, closeTriggers,
                   freeFnCalls, claimCount, releaseCount, destructDone, nConstructed,
                   nFreed, nFailed>>

Next ==
    \/ \E t \in Threads, rc \in OpenResults : spdk_bdev_part_base_construct_ext(t, rc)
    \/ \E p \in Parts, alloc \in AllocResults, rc \in RegisterResults :
          spdk_bdev_part_construct_ext(p, alloc, rc)
    \/ \E p \in Parts, t \in Threads : spdk_bdev_part_free(p, t)
    \/ \E t \in Threads : bdev_part_free_cb(t)
    \/ \E t \in Threads : spdk_bdev_part_base_free(t)
    \/ \E t \in Threads : bdev_part_base_free(t)
    \/ OtherModuleClaim
    \/ OtherModuleRelease

Spec == Init /\ [][Next]_vars

\* ===================================================================
\* Properties of the base and partition lifecycle (specification Spec)
\* ===================================================================
\* spdk_bdev_part_base_free closed the descriptor or dispatched its close
CloseTriggered == InSeq(ev, "close") \/ InSeq(ev, "send_msg_close")

\* the close message is queued on the thread that opened the descriptor
ClosePending ==
    descThread # 0 /\ \E i \in 1..Len(msgq[descThread]) :
                          msgq[descThread][i].fn = "bdev_part_base_free"

\* spdk_bdev_part_base_free ran inside the last handler, on a base with a descriptor
BaseFreeRanWithDesc ==
    /\ lastOp.op \in {"bdev_part_free_cb", "spdk_bdev_part_base_free"}
    /\ InSeq(ev, "free_base")
    /\ lastOp.desc0 = "open"

\* C1: after N >= 1 successful constructions and the destruction of all N
\* partitions the descriptor is closed exactly once; the close is triggered by
\* the N-th bdev_part_free_cb and by none of the first N-1.
C1_ClosedOnceByLastDestruction ==
    /\ closeCount <= 1
    /\ closeTriggers <= 1
    /\ closeCount = 1 => closeTriggers = 1
    /\ nConstructed >= 1 => (closeTriggers = 1 <=> nFreed = nConstructed)
    /\ lastOp.op = "bdev_part_free_cb" => (CloseTriggered <=> nFreed = nConstructed)
    /\ (nConstructed >= 1 /\ nFreed = nConstructed /\ ~ClosePending) => closeCount = 1

\* two partitions were constructed, both destroyed, and the descriptor is closed
C1_Witness == nConstructed = 2 /\ nFreed = 2 /\ closeCount = 1 /\ nFailed >= 1

\* C2: the base is freed (descriptor closed or its close dispatched, record
\* released) only after every successfully constructed partition completed its
\* destroy callback; no partition that is registered or awaits its callback
\* refers to a freed base.
C2_BaseOutlivesPartitions ==
    (baseState = "freed" \/ closeTriggers > 0 \/ closeCount > 0) =>
        /\ \A p \in Parts : partState[p] \notin {"registered", "freeing"}
        /\ nFreed = nConstructed
        /\ tailq = <<>>

\* the base was freed after two partitions, construction failures in between
C2_Witness ==
    baseState = "freed" /\ nConstructed = 2 /\ nFailed = 2 /\ freeFnCalls = 1

\* C3: the descriptor is closed at most once and only on the thread that opened
\* it: spdk_bdev_part_base_free on another thread sends the close as a message
\* to that thread and does not close inline; on the opening thread it closes
\* inline.
C3_CloseOnAffinityThread ==
    /\ closeCount <= 1
    /\ closeCount = 1 => (closeThread = descThread /\ desc = "closed")
    /\ BaseFreeRanWithDesc =>
          IF lastOp.thread # descThread
          THEN /\ InSeq(ev, "send_msg_close") /\ ~InSeq(ev, "close")
               /\ ClosePending /\ desc = "open" /\ closeCount = 0
          ELSE /\ InSeq(ev, "close") /\ ~InSeq(ev, "send_msg_close")
               /\ ~ClosePending /\ desc = "closed" /\ closeCount = 1

\* the close message sent from another thread ran on the opening thread
C3_Witness ==
    /\ lastOp.op = "bdev_part_base_free"
    /\ closeCount = 1
    /\ closeThread = descThread
    /\ nFreed >= 1

C5_ClaimedAndReleasedOnce == claimCount <= 1 /\ releaseCount <= 1

\* C5 amended: the claim is taken only by a construction that finds the base
\* unclaimed with reference count zero, never while it is held, and is released
\* each time the reference count returns to zero with the claim held; claims
\* and releases alternate and may each happen more than once.
C5_ClaimsAndReleasesAlternate ==
    /\ releaseCount <= claimCount
    /\ claimCount <= releaseCount + 1
    /\ bdevOwner = "part" <=> claimCount = releaseCount + 1
    /\ baseState = "live" => ((claimed <=> bdevOwner = "part") /\ (claimed <=> ref > 0))
    /\ baseState = "freed" => bdevOwner # "part"
    /\ InSeq(ev, "claim_bdev")
          => (lastOp.ref0 = 0 /\ ~lastOp.claimed0 /\ lastOp.owner0 = "none")
    /\ InSeq(ev, "release_bdev")
          => (ref = 0 /\ (lastOp.owner0 = "part" \/ InSeq(ev, "claim_bdev")))
    /\ (InSeq(ev, "ref_dec") /\ ref = 0
          /\ (lastOp.owner0 = "part" \/ InSeq(ev, "claim_bdev")))
          => InSeq(ev, "release_bdev")

\* the device was claimed twice and released twice over one base lifetime
C5_Witness == claimCount = 2 /\ releaseCount = 2 /\ baseState = "freed"

\* the last handler was a construction that ended at the given stage
ConstructEndedAt(stage) ==
    lastOp.op = "spdk_bdev_part_construct_ext" /\ lastOp.stage = stage

\* C6: a construction that reaches the claim step while another module holds
\* the device fails; the reference count is what it was before the call, the
\* claimed flag stays false, and the partition is neither registered nor listed.
C6_ClaimFailureUnwinds ==
    /\ (lastOp.op = "spdk_bdev_part_construct_ext" /\ lastOp.stage # "alloc"
          /\ ~lastOp.claimed0 /\ lastOp.owner0 = "other") => lastOp.stage = "claim"
    /\ ConstructEndedAt("claim") =>
          /\ lastOp.ret = -1
          /\ lastOp.owner0 # "none"
          /\ ref = lastOp.ref0
          /\ ~claimed
          /\ bdevOwner = lastOp.owner0
          /\ lastOp.part \notin bdevs
          /\ lastOp.part \notin ioDevices
          /\ ~InSeq(tailq, lastOp.part)
          /\ partState[lastOp.part] = "unused"

\* a construction failed at the claim step after the other module took the device
C6_Witness ==
    ConstructEndedAt("claim") /\ lastOp.owner0 = "other" /\ claimCount >= 1

\* C7: when spdk_bdev_register fails, on return the reference count and the
\* claimed flag are what they were before the call, a claim taken by the call is
\* released, the io_device registration is undone and the partition is not in
\* the list, for a first partition and for a later one.
C7_RegisterFailureUnwinds ==
    ConstructEndedAt("register") =>
        /\ lastOp.ret # 0
        /\ ref = lastOp.ref0
        /\ claimed = lastOp.claimed0
        /\ bdevOwner = lastOp.owner0
        /\ InSeq(ev, "claim_bdev") <=> ~lastOp.claimed0
        /\ InSeq(ev, "claim_bdev") <=> InSeq(ev, "release_bdev")
        /\ Pos(ev, "io_device_register") > 0
        /\ Pos(ev, "io_device_register") < Pos(ev, "io_device_unregister")
        /\ lastOp.part \notin ioDevices
        /\ lastOp.part \notin bdevs
        /\ ~InSeq(tailq, lastOp.part)

\* a later partition failed to register, after a first one had failed and
\* released the claim it took
C7_Witness ==
    /\ ConstructEndedAt("register")
    /\ lastOp.ref0 >= 1
    /\ lastOp.claimed0
    /\ releaseCount >= 1
    /\ baseState = "live"

\* the calls of bdev_part_free_cb come in the order of the code
FreeCbOrder(e) ==
    /\ Pos(e, "tailq_remove") = 1
    /\ Pos(e, "ref_dec") = 2
    /\ Pos(e, "destruct_done") > 2
    /\ InSeq(e, "free_base") => Pos(e, "free_base") < Pos(e, "destruct_done")
    /\ Pos(e, "destruct_done") < Pos(e, "free_part")

\* C8: spdk_bdev_part_free changes neither the list nor the reference count and
\* returns 1; only bdev_part_free_cb removes a partition from the list, it
\* decrements the reference count, frees the base when the count reaches zero,
\* and then signals spdk_bdev_destruct_done once per partition, before the
\* partition record is released.
C8_DestroyIsAsynchronous ==
    /\ [](\A p \in Parts : /\ destructDone[p] <= 1
                           /\ destructDone[p] = 1 <=> partState[p] = "freed")
    /\ [][/\ lastOp'.op = "spdk_bdev_part_free"
                => /\ lastOp'.ret = 1
                   /\ UNCHANGED <<tailq, ref, destructDone, baseState, desc, claimed>>
                   /\ InSeq(tailq', lastOp'.part)
          /\ Len(tailq') < Len(tailq) => lastOp'.op = "bdev_part_free_cb"
          /\ destructDone' # destructDone => lastOp'.op = "bdev_part_free_cb"
          /\ lastOp'.op = "bdev_part_free_cb"
                => /\ InSeq(tailq, lastOp'.part)
                   /\ tailq' = RemoveFirst(tailq, lastOp'.part)
                   /\ ref' = ref - 1
                   /\ (ref' = 0) <=> (baseState' = "freed")
                   /\ (ref' = 0) <=> InSeq(ev', "free_base")
                   /\ destructDone' = [destructDone EXCEPT ![lastOp'.part] = @ + 1]
                   /\ FreeCbOrder(ev')
         ]_vars

\* one partition completed its destruction while another, whose destruction was
\* requested, still sits in the list holding its reference
C8_Witness ==
    \E p, q \in Parts :
        /\ partState[p] = "freed" /\ destructDone[p] = 1
        /\ partState[q] = "freeing" /\ InSeq(tailq, q) /\ destructDone[q] = 0
        /\ ref = 1

\* ===================================================================
\* The I/O forwarder (specification SpecIO): one request against one
\* partition of a constructed base
\* ===================================================================
\* enum spdk_bdev_io_status values the forwarder returns and completes with
SPDK_BDEV_IO_STATUS_FAILED == -1
SPDK_BDEV_IO_STATUS_SUCCESS == 1

\* the I/O types handed to a partition; "nvme_admin" and "seek_data" stand for
\* the types the switch of spdk_bdev_part_submit_request_ext does not name
IoTypes == {"read", "write", "write_zeroes", "unmap", "flush", "reset", "abort",
            "zcopy", "compare", "compare_and_write", "copy", "nvme_admin", "seek_data"}

\* a switch whose default case forwards like the others
ForwardedTypesAll ==
    {"read", "write", "write_zeroes", "unmap", "flush", "reset", "abort", "zcopy",
     "compare", "compare_and_write", "copy", "nvme_admin", "seek_data"}

\* the cases of the switch in spdk_bdev_part_submit_request_ext
ForwardedTypes == {"read", "write", "write_zeroes", "unmap", "flush", "reset", "abort",
                   "zcopy", "compare", "compare_and_write", "copy"}

\* a value as a uint32_t of TagBits bits
U32(x) == x % (2 ^ TagBits)

\* the reference tags of n consecutive blocks whose first has reference tag first
GoodTags(first, n) == [i \in 1..n |-> U32(first + i - 1)]

\* tags with the tag of block i made wrong
Corrupt(tags, i) == [tags EXCEPT ![i] = U32(@ + 1)]

\* index of the first block whose tag is not the one expected from init, 0 if none
FirstBadBlock(tags, init) ==
    IF \E i \in 1..Len(tags) : tags[i] # U32(init + i - 1)
    THEN CHOOSE i \in 1..Len(tags) :
            /\ tags[i] # U32(init + i - 1)
            /\ \A j \in 1..(i - 1) : tags[j] = U32(init + j - 1)
    ELSE 0

\* spdk_dif_remap_ref_tag / spdk_dix_remap_ref_tag with reference tag checking:
\* block by block, a tag that matches init + i is rewritten to remapped + i, the
\* first one that does not stops the remap with an error
DifRemapRefTag(tags, init, remapped) ==
    LET bad == FirstBadBlock(tags, init) IN
    [rc |-> IF bad = 0 THEN 0 ELSE -1,
     tags |-> [i \in 1..Len(tags) |->
                 IF bad = 0 \/ i < bad THEN U32(remapped + i - 1) ELSE tags[i]]]

\* bdev_part_remap_dif(bdev_io, offset, remapped_offset) on the buffers tags of a
\* request whose dif_check_flags hold SPDK_DIF_FLAGS_REFTAG_CHECK iff reftag;
\* ctx_ok says whether spdk_dif_ctx_init succeeds
bdev_part_remap_dif(reftag, ctx_ok, tags, offset, remapped_offset) ==
    IF ~reftag THEN [rc |-> 0, tags |-> tags]
    ELSE IF ~ctx_ok THEN [rc |-> -1, tags |-> tags]
    ELSE DifRemapRefTag(tags, U32(offset), U32(remapped_offset))

\* an offset that is not translated
RemappedOffsetNone(o, p) == o

\* "remapped_offset = offset + part->internal.offset_blocks"; requests lie inside
\* the partition and the partition inside the base, so the uint64_t sum does not wrap
RemappedOffset(o, p) == o + p

\* "remapped_src_offset = bdev_io->u.bdev.copy.src_offset_blocks + part->internal.offset_blocks"
RemappedSrcOffset(src, p) == src + p

\* the bdev function each case of the switch calls
BaseFn(io) ==
    CASE io.type = "read" -> "spdk_bdev_readv_blocks_ext"
      [] io.type = "write" -> "spdk_bdev_writev_blocks_ext"
      [] io.type = "write_zeroes" -> "spdk_bdev_write_zeroes_blocks"
      [] io.type = "unmap" -> "spdk_bdev_unmap_blocks"
      [] io.type = "flush" -> "spdk_bdev_flush_blocks"
      [] io.type = "reset" -> "spdk_bdev_reset"
      [] io.type = "abort" -> "spdk_bdev_abort"
      [] io.type = "zcopy" -> "spdk_bdev_zcopy_start"
      [] io.type = "compare" -> IF io.md_buf THEN "spdk_bdev_comparev_blocks_with_md"
                                ELSE "spdk_bdev_comparev_blocks"
      [] io.type = "compare_and_write" -> "spdk_bdev_comparev_and_writev_blocks"
      [] io.type = "copy" -> "spdk_bdev_copy_blocks"
      [] OTHER -> "none"

\* the operation issued to the base bdev for request io against partition part
BaseOp(io, part) ==
    [fn |-> BaseFn(io),
     offset |-> IF io.type \in {"reset", "abort"} THEN -1
                ELSE RemappedOffset(io.offset_blocks, part.offset_blocks),
     src_offset |-> IF io.type = "copy"
                    THEN RemappedSrcOffset(io.src_offset_blocks, part.offset_blocks)
                    ELSE -1,
     num_blocks |-> IF io.type \in {"reset", "abort"} THEN 0 ELSE io.num_blocks]

\* the life-cycle state of a base with one registered partition
LifeConstructed ==
    /\ outBase = "base"
    /\ baseState = "live"
    /\ desc = "open"
    /\ descThread = 1
    /\ baseThread = 1
    /\ ref = 1
    /\ claimed = TRUE
    /\ tailq = <<1>>
    /\ partState = [p \in Parts |-> IF p = 1 THEN "registered" ELSE "unused"]
    /\ bdevOwner = "part"
    /\ ioDevices = {1}
    /\ bdevs = {1}
    /\ msgq = [t \in Threads |-> <<>>]
    /\ closeCount = 0
    /\ closeThread = 0
    /\ closeTriggers = 0
    /\ freeFnCalls = 0
    /\ claimCount = 1
    /\ releaseCount = 0
    /\ destructDone = [p \in Parts |-> 0]
    /\ nConstructed = 1
    /\ nFreed = 0
    /\ nFailed = 0
    /\ lastOp = [op |-> "spdk_bdev_part_construct_ext", part |-> 1, thread |-> 0, ret |-> 0,
                 stage |-> "done", ref0 |-> 0, claimed0 |-> FALSE, owner0 |-> "none",
                 baseThread0 |-> 1, desc0 |-> "open"]
    /\ ev = <<"ref_inc", "claim_bdev", "io_device_register", "bdev_register", "tailq_insert">>

Min(a, b) == IF a < b THEN a ELSE b

\* the base bdev with the reference tag of every block matching its LBA
GoodDisk == [b \in 1..BaseBlocks |-> U32(b - 1)]

\* a partition inside the base, a request inside the partition, the tags on the
\* base bdev and in the request's buffers
IoInit ==
    /\ LifeConstructed
    /\ CapIdle
    /\ UuidIdle
    /\ HotIdle
    /\ ChIdle
    /\ \E p \in 0..(BaseBlocks - 1), n \in 1..BaseBlocks :
          /\ p + n <= BaseBlocks
          /\ ioPart = [offset_blocks |-> p, blockcnt |-> n]
          /\ \E ty \in IoTypes, o \in 0..(n - 1) :
             \E cnt \in 1..Min(MaxIoBlocks, n - o) :
             \E src \in IF ty = "copy" THEN 0..(n - cnt) ELSE {0},
                reftag \in IF ty \in {"read", "write"} THEN BOOLEAN ELSE {FALSE},
                md \in IF ty = "compare" THEN BOOLEAN ELSE {FALSE} :
             \E ctx \in IF reftag THEN BOOLEAN ELSE {TRUE} :
                /\ partIo = [type |-> ty, offset_blocks |-> o, num_blocks |-> cnt,
                             src_offset_blocks |-> src, reftag |-> reftag, ctx_ok |-> ctx,
                             md_buf |-> md, split |-> FALSE]
                /\ buf \in IF ty = "write"
                           THEN {GoodTags(o, cnt)} \cup {Corrupt(GoodTags(o, cnt), i) : i \in 1..cnt}
                           ELSE {[i \in 1..cnt |-> 0]}
                /\ disk \in IF ty = "read"
                            THEN {GoodDisk} \cup {Corrupt(GoodDisk, b) : b \in (p + o + 1)..(p + o + cnt)}
                            ELSE {GoodDisk}
    /\ baseIo = NoIo
    /\ ioPc = "new"
    /\ submitRet = 0
    /\ userCb = <<>>
    /\ defaultCb = <<>>
    /\ freeIoCalls = 0
    /\ ioEv = <<>>
    /\ complInfo = [success |-> FALSE, remap_rc |-> 0]
    /\ userTags = buf
    /\ readBack = FALSE

\* a write path that goes on after a failed remap
WriteRemapRejectsNever(rc) == FALSE

\* "rc = bdev_part_remap_dif(...); if (rc != 0) return SPDK_BDEV_IO_STATUS_FAILED"
WriteRemapRejects(rc) == rc # 0

\* spdk_bdev_part_submit_request_ext(ch, bdev_io, cb): has_cb says whether cb is
\* not NULL, base_rc is what the bdev function called would return
spdk_bdev_part_submit_request_ext(has_cb, base_rc) ==
    /\ ioPc = "new"
    /\ UNCHANGED <<lifeVars, auxVars>>
    /\ UNCHANGED <<ioPart, disk, userCb, defaultCb, freeIoCalls, complInfo, userTags, readBack>>
    /\ LET io == [partIo EXCEPT !.split = IF has_cb THEN TRUE ELSE @]
           offset == io.offset_blocks
           remapped_offset == RemappedOffset(offset, ioPart.offset_blocks)
           remap == IF io.type = "write"
                    THEN bdev_part_remap_dif(io.reftag, io.ctx_ok, buf, offset, remapped_offset)
                    ELSE [rc |-> 0, tags |-> buf]
       IN
       /\ partIo' = io
       /\ buf' = remap.tags
       /\ IF WriteRemapRejects(remap.rc)
          THEN /\ submitRet' = SPDK_BDEV_IO_STATUS_FAILED
               /\ baseIo' = NoIo
               /\ ioPc' = "rejected"
               /\ ioEv' = <<"remap_dif_failed">>
          ELSE IF io.type \notin ForwardedTypes
          THEN /\ submitRet' = SPDK_BDEV_IO_STATUS_FAILED
               /\ baseIo' = NoIo
               /\ ioPc' = "rejected"
               /\ ioEv' = <<"unknown_io_type">>
          ELSE IF base_rc # 0
          THEN /\ submitRet' = base_rc
               /\ baseIo' = NoIo
               /\ ioPc' = "rejected"
               /\ ioEv' = <<BaseFn(io) \o "_failed">>
          ELSE /\ submitRet' = 0
               /\ baseIo' = BaseOp(io, ioPart)
               /\ ioPc' = "inflight"
               /\ ioEv' = <<BaseFn(io)>>

\* spdk_bdev_io_complete_base_io_status(part_io, base_io): part_io completes with
\* the status of the base I/O, which is what the base bdev reported
CompleteBaseIoStatus(base_success) ==
    IF base_success THEN SPDK_BDEV_IO_STATUS_SUCCESS ELSE SPDK_BDEV_IO_STATUS_FAILED

\* a completion that never takes the stored override
UsesOverrideNever(split) == FALSE

\* "if (part_io->internal.f.split)": the stored override completes the request
UsesOverride(split) == split

\* the blocks base_first .. base_first + n - 1 of the base bdev
DiskRange(d, base_first, n) == [i \in 1..n |-> d[base_first + i]]

\* the base bdev with tags written at blocks base_first .. base_first + n - 1
DiskWrite(d, base_first, tags) ==
    [b \in 1..BaseBlocks |->
        IF b > base_first /\ b <= base_first + Len(tags) THEN tags[b - base_first] ELSE d[b]]

\* the base bdev completes the operation in flight with base_success and calls
\* bdev_part_complete_io(bdev_io, success, part_io)
\* a read completion that leaves the tags in the base bdev's offsets
ReadRemappedOffsetBase(base_offset, part_io_offset) == base_offset

\* "offset = bdev_io->u.bdev.offset_blocks; remapped_offset = part_io->u.bdev.offset_blocks"
ReadRemappedOffset(base_offset, part_io_offset) == part_io_offset

bdev_part_complete_io(base_success) ==
    /\ ioPc = "inflight"
    /\ UNCHANGED <<lifeVars, auxVars>>
    /\ UNCHANGED <<ioPart, partIo, baseIo, submitRet, userTags, readBack>>
    /\ LET is_read == baseIo.fn = "spdk_bdev_readv_blocks_ext"
           is_write == baseIo.fn = "spdk_bdev_writev_blocks_ext"
           data == IF is_read /\ base_success
                   THEN DiskRange(disk, baseIo.offset, baseIo.num_blocks) ELSE buf
           remap == IF is_read /\ base_success
                    THEN bdev_part_remap_dif(partIo.reftag, partIo.ctx_ok, data, baseIo.offset,
                                             ReadRemappedOffset(baseIo.offset, partIo.offset_blocks))
                    ELSE [rc |-> 0, tags |-> data]
           success == IF remap.rc # 0 THEN FALSE ELSE base_success
       IN
       /\ disk' = IF is_write /\ base_success THEN DiskWrite(disk, baseIo.offset, buf) ELSE disk
       /\ buf' = remap.tags
       /\ complInfo' = [success |-> base_success, remap_rc |-> remap.rc]
       /\ IF UsesOverride(partIo.split)
          THEN /\ userCb' = Append(userCb, success)
               /\ defaultCb' = defaultCb
               /\ ioEv' = <<"stored_user_cb", "free_io">>
          ELSE /\ defaultCb' = Append(defaultCb, CompleteBaseIoStatus(base_success))
               /\ userCb' = userCb
               /\ ioEv' = <<"complete_base_io_status", "free_io">>
       /\ freeIoCalls' = freeIoCalls + 1
       /\ ioPc' = "completed"

\* the bdev layer hands the partition a read of the blocks a completed write
\* stored: same partition, same offset_blocks, num_blocks and dif_check_flags,
\* buffers not yet filled
ReadBack ==
    /\ ioPc = "completed"
    /\ partIo.type = "write"
    /\ complInfo.success
    /\ ~readBack
    /\ UNCHANGED <<lifeVars, auxVars>>
    /\ UNCHANGED <<ioPart, disk, submitRet, complInfo, userTags>>
    /\ partIo' = [partIo EXCEPT !.type = "read", !.split = FALSE]
    /\ buf' = [i \in 1..partIo.num_blocks |-> 0]
    /\ baseIo' = NoIo
    /\ ioPc' = "new"
    /\ userCb' = <<>>
    /\ defaultCb' = <<>>
    /\ freeIoCalls' = 0
    /\ ioEv' = <<>>
    /\ readBack' = TRUE

IoNext ==
    \/ \E has_cb \in BOOLEAN, base_rc \in {0, -ENOMEM} :
          spdk_bdev_part_submit_request_ext(has_cb, base_rc)
    \/ \E base_success \in BOOLEAN : bdev_part_complete_io(base_success)
    \/ ReadBack

SpecIO == IoInit /\ [][IoNext]_vars

\* C9: the operation issued to the base bdev carries offset o + p and the
\* request's block count for read, write, write-zeroes, unmap, flush, zcopy,
\* compare and compare-and-write; a copy carries destination offset o + p and
\* source offset src + p; reset and abort carry no offset.
C9_OffsetTranslation ==
    baseIo # NoIo =>
        /\ baseIo.fn = BaseFn(partIo)
        /\ partIo.type \in {"read", "write", "write_zeroes", "unmap", "flush", "zcopy",
                            "compare", "compare_and_write"}
              => /\ baseIo.offset = partIo.offset_blocks + ioPart.offset_blocks
                 /\ baseIo.num_blocks = partIo.num_blocks
                 /\ baseIo.src_offset = -1
        /\ partIo.type = "copy"
              => /\ baseIo.offset = partIo.offset_blocks + ioPart.offset_blocks
                 /\ baseIo.src_offset = partIo.src_offset_blocks + ioPart.offset_blocks
                 /\ baseIo.num_blocks = partIo.num_blocks
        /\ partIo.type \in {"reset", "abort"}
              => /\ baseIo.offset = -1
                 /\ baseIo.src_offset = -1
        /\ partIo.type \in ForwardedTypes

\* a copy inside a partition that starts past block 0 of the base was issued,
\* its source and destination offsets differing
C9_Witness ==
    /\ ioPc = "inflight"
    /\ baseIo.fn = "spdk_bdev_copy_blocks"
    /\ ioPart.offset_blocks = 2
    /\ partIo.offset_blocks = 1
    /\ partIo.src_offset_blocks = 0
    /\ baseIo.offset = 3
    /\ baseIo.src_offset = 2

\* the status the original request was completed with, 0 while it is not
ReportedStatus ==
    IF userCb # <<>>
    THEN (IF userCb[Len(userCb)] THEN SPDK_BDEV_IO_STATUS_SUCCESS
          ELSE SPDK_BDEV_IO_STATUS_FAILED)
    ELSE IF defaultCb # <<>> THEN defaultCb[Len(defaultCb)]
    ELSE 0

\* C10: when a forwarded read succeeds on the base bdev and the reference tag
\* remap after it fails, the original request is reported as failed, with an
\* override completion stored and on the default completion path, and the base
\* I/O is released.
C10_ReadRemapFailureReported ==
    (/\ ioPc = "completed"
     /\ baseIo.fn = "spdk_bdev_readv_blocks_ext"
     /\ complInfo.success
     /\ complInfo.remap_rc # 0)
        => /\ ReportedStatus = SPDK_BDEV_IO_STATUS_FAILED
           /\ freeIoCalls = 1

\* ===================================================================
\* Capabilities of a partition (specification SpecCaps)
\* ===================================================================
\* the I/O types asked about; "read", "write", "unmap" and "flush" stand for
\* the types that are not NVMe passthrough
CapTypes == {"read", "write", "unmap", "flush", "nvme_admin", "nvme_io", "nvme_io_md"}

\* a capability query that filters nothing
PassthroughTypesNone == {}

\* the cases of the switch in bdev_part_io_type_supported that return false
PassthroughTypes == {"nvme_admin", "nvme_io", "nvme_io_md"}

\* a partition on a base bdev with any capability table
CapInit ==
    /\ LifeConstructed
    /\ IoIdle
    /\ UuidIdle
    /\ HotIdle
    /\ ChIdle
    /\ baseSupported \in SUBSET CapTypes
    /\ capQuery = "none"
    /\ capAnswer = FALSE

\* bdev_part_io_type_supported(part, io_type)
bdev_part_io_type_supported(io_type) ==
    /\ UNCHANGED <<lifeVars, ioVars, outBase, uuidVars, hotVars, chVars>>
    /\ UNCHANGED baseSupported
    /\ capQuery' = io_type
    /\ capAnswer' = IF io_type \in PassthroughTypes
                    THEN FALSE
                    ELSE io_type \in baseSupported

CapNext == \E io_type \in CapTypes : bdev_part_io_type_supported(io_type)

SpecCaps == CapInit /\ [][CapNext]_vars

\* C13: whatever the base bdev supports, a partition reports NVMe admin, NVMe
\* I/O and NVMe I/O with metadata as unsupported, and reports every other I/O
\* type exactly as the base bdev's io_type_supported does.
C13_CapabilityNarrowing ==
    capQuery # "none" =>
        IF capQuery \in {"nvme_admin", "nvme_io", "nvme_io_md"}
        THEN capAnswer = FALSE
        ELSE capAnswer = (capQuery \in baseSupported)

\* a passthrough type the base bdev supports was reported unsupported by a
\* partition that passes on the base's support of another type
C13_Witness ==
    /\ capQuery = "nvme_io_md"
    /\ capQuery \in baseSupported
    /\ capAnswer = FALSE
    /\ "unmap" \in baseSupported

\* ===================================================================
\* Block count and UUID of a constructed partition (specification SpecUuid)
\* ===================================================================
\* the blocks of a base bdev that partitions are constructed on
MaxUuidBlocks == 2

\* "#define BDEV_PART_NAMESPACE_UUID"
BDEV_PART_NAMESPACE_UUID == "976b899e-3e1e-4d71-ab69-c2b08e9df8b8"

\* a UUID is a tuple; the null UUID is the empty one
NullUuid == <<>>

spdk_uuid_is_null(u) == u = NullUuid

\* a name-based UUID is determined by the namespace and the bytes of the name,
\* and is not null
spdk_uuid_generate_sha1(ns_uuid, name) == <<ns_uuid>> \o name

\* "sizeof(struct spdk_bdev_part_construct_opts) == 24": opts_size, then uuid,
\* which ends the structure
UuidFieldEnd == 24

\* the opts_size a caller may pass: a structure that ends before uuid, or the
\* whole structure
OptsSizes == {8, UuidFieldEnd}

\* FIELD_OK(uuid): "offsetof(..., uuid) + sizeof(src->uuid) <= src->opts_size"
FIELD_OK(opts_size) == UuidFieldEnd <= opts_size

\* spdk_bdev_part_construct_opts_init(&opts, sizeof(opts))
spdk_bdev_part_construct_opts_init == [opts_size |-> UuidFieldEnd, uuid |-> NullUuid]

\* part_construct_opts_copy(src, &dst)
part_construct_opts_copy(src) ==
    [opts_size |-> src.opts_size,
     uuid |-> IF FIELD_OK(src.opts_size) THEN src.uuid ELSE NullUuid]

\* the opts spdk_bdev_part_construct_ext works with; _opts is <<>> for NULL
ConstructOpts(_opts) ==
    IF _opts = <<>> THEN spdk_bdev_part_construct_opts_init
    ELSE part_construct_opts_copy(_opts[1])

\* a construction that never takes the caller's UUID
UuidGivenNever(opts) == FALSE

\* "if (!spdk_uuid_is_null(&opts.uuid))"
UuidGiven(opts) == ~spdk_uuid_is_null(opts.uuid)

\* part->internal.bdev.uuid: the caller's, or the one generated from base_name =
\* {base->bdev->uuid, offset_blocks, num_blocks}
PartUuid(base_uuid, offset_blocks, num_blocks, opts) ==
    IF UuidGiven(opts)
    THEN opts.uuid
    ELSE spdk_uuid_generate_sha1(BDEV_PART_NAMESPACE_UUID,
                                 <<base_uuid, offset_blocks, num_blocks>>)

\* the UUIDs of the base bdevs, the names a partition is given, the _opts passed
BaseUuids == {"uuid-a", "uuid-b"}
PartNames == {[name |-> "part0", product_name |-> "Part A"],
              [name |-> "part1", product_name |-> "Part B"]}
OptsArgs ==
    {<<>>, <<[opts_size |-> UuidFieldEnd, uuid |-> NullUuid]>>}
    \cup {<<[opts_size |-> sz, uuid |-> <<"uuid-x">>]>> : sz \in OptsSizes}

\* spdk_bdev_part_construct_ext(part, base, name, offset_blocks, num_blocks,
\* product_name, _opts) up to "base->ref++": the fields it sets on the
\* partition's bdev; sha1_rc is what spdk_uuid_generate_sha1 returns
ConstructIdentity(nm, base_uuid, offset_blocks, num_blocks, _opts, sha1_rc) ==
    /\ UNCHANGED <<lifeVars, ioVars, outBase, capVars, hotVars, chVars>>
    /\ LET opts == ConstructOpts(_opts) IN
       /\ (sha1_rc # 0) => ~UuidGiven(opts)
       /\ uLast' = [ok |-> sha1_rc = 0,
                    name |-> nm.name, product_name |-> nm.product_name,
                    base_uuid |-> base_uuid, offset_blocks |-> offset_blocks,
                    num_blocks |-> num_blocks, opts |-> _opts,
                    blockcnt |-> num_blocks,
                    uuid |-> IF sha1_rc = 0
                             THEN PartUuid(base_uuid, offset_blocks, num_blocks, opts)
                             ELSE NullUuid]
    /\ uPrev' = uLast

UuidInit ==
    /\ LifeConstructed
    /\ IoIdle
    /\ CapIdle
    /\ UuidIdle
    /\ HotIdle
    /\ ChIdle

UuidNext ==
    \E nm \in PartNames, base_uuid \in BaseUuids, offset_blocks \in 0..(MaxUuidBlocks - 1) :
    \E num_blocks \in 1..(MaxUuidBlocks - offset_blocks), _opts \in OptsArgs,
       sha1_rc \in {0, -1} :
       ConstructIdentity(nm, base_uuid, offset_blocks, num_blocks, _opts, sha1_rc)

SpecUuid == UuidInit /\ [][UuidNext]_vars

\* the construction was given a non-null UUID in an opts that holds the field
ExplicitUuid(c) ==
    /\ c.opts # <<>>
    /\ c.opts[1].opts_size >= 24
    /\ c.opts[1].uuid # <<>>

\* C15: a constructed partition reports blockcnt = num_blocks; constructed
\* without an explicit UUID, its UUID depends only on the base bdev's UUID,
\* offset_blocks and num_blocks (two constructions with the same three get the
\* same UUID whatever their names and the calls before them, and never the null
\* one); an explicit non-null UUID is used as given.
C15_BlockcntAndUuid ==
    /\ uLast.ok => uLast.blockcnt = uLast.num_blocks
    /\ (uLast.ok /\ ExplicitUuid(uLast)) => uLast.uuid = uLast.opts[1].uuid
    /\ (uLast.ok /\ ~ExplicitUuid(uLast)) => uLast.uuid # <<>>
    /\ (/\ uLast.ok /\ uPrev.ok
        /\ ~ExplicitUuid(uLast) /\ ~ExplicitUuid(uPrev)
        /\ uLast.base_uuid = uPrev.base_uuid
        /\ uLast.offset_blocks = uPrev.offset_blocks
        /\ uLast.num_blocks = uPrev.num_blocks)
          => uLast.uuid = uPrev.uuid

\* two constructions of the same range of the same base under different names,
\* one without opts and one with opts that end before the uuid field, got the
\* same UUID
C15_Witness ==
    /\ uLast.ok /\ uPrev.ok
    /\ uLast.name # uPrev.name
    /\ uLast.product_name # uPrev.product_name
    /\ uPrev.opts = <<>>
    /\ uLast.opts # <<>> /\ uLast.opts[1].opts_size < 24 /\ uLast.opts[1].uuid # <<>>
    /\ uLast.base_uuid = uPrev.base_uuid
    /\ uLast.offset_blocks = 1 /\ uPrev.offset_blocks = 1
    /\ uLast.num_blocks = 1 /\ uPrev.num_blocks = 1
    /\ uLast.blockcnt = 1
    /\ uLast.uuid = uPrev.uuid

\* ===================================================================
\* Hot removal of a base (specification SpecHot)
\* ===================================================================
\* the partitions a shared list holds at most
MaxListed == 3

\* the calls of spdk_bdev_part_base_hotremove followed
MaxHotremove == 2

\* the bases whose partitions share the list
HotBases == {1, 2}

\* the partitions of base b in list l
PartsOf(l, b) == {i \in 1..Len(l) : l[i].base = b}

\* a hot removal that unregisters every partition of the list
HotremoveMatchesAll(part, part_base) == TRUE

\* "if (part->internal.base == part_base)"
HotremoveMatches(part, part_base) == part.base = part_base

\* a list of constructed partitions of live bases; the bdev layer may already
\* have been asked to unregister some of them
HotInit ==
    /\ LifeConstructed
    /\ IoIdle
    /\ CapIdle
    /\ UuidIdle
    /\ ChIdle
    /\ \E n \in 0..MaxListed :
          hotList \in [1..n -> [base : HotBases, unregs : {0, 1}]]
    /\ hotRef = [b \in HotBases |-> Cardinality(PartsOf(hotList, b))]
    /\ hotDesc = [b \in HotBases |-> "open"]
    /\ hotArg = 0
    /\ hotPrev = <<>>

\* spdk_bdev_part_base_hotremove(part_base, tailq): spdk_bdev_unregister is
\* called, with no callback, on the bdev of every partition that matches
spdk_bdev_part_base_hotremove(part_base) ==
    /\ UNCHANGED <<lifeVars, ioVars, outBase, capVars, uuidVars, chVars>>
    /\ \A i \in 1..Len(hotList) : hotList[i].unregs < MaxHotremove
    /\ hotArg' = part_base
    /\ hotPrev' = hotList
    /\ hotList' = [i \in 1..Len(hotList) |->
                     IF HotremoveMatches(hotList[i], part_base)
                     THEN [hotList[i] EXCEPT !.unregs = @ + 1]
                     ELSE hotList[i]]
    /\ UNCHANGED <<hotRef, hotDesc>>

HotNext == \E part_base \in HotBases : spdk_bdev_part_base_hotremove(part_base)

SpecHot == HotInit /\ [][HotNext]_vars

\* C17: spdk_bdev_part_base_hotremove asks the bdev layer to unregister every
\* partition of the list whose base is the given one, once each, and no
\* partition of another base; the list keeps its partitions and their order, no
\* base->ref changes and no base is closed or freed.
C17_HotremoveUnregistersOwnPartitions ==
    hotArg # 0 =>
        /\ Len(hotList) = Len(hotPrev)
        /\ \A i \in 1..Len(hotList) :
              /\ hotList[i].base = hotPrev[i].base
              /\ hotList[i].unregs =
                    hotPrev[i].unregs + (IF hotPrev[i].base = hotArg THEN 1 ELSE 0)
        /\ \A b \in HotBases :
              /\ hotRef[b] = Cardinality(PartsOf(hotList, b))
              /\ hotDesc[b] = "open"

\* the first base, with two partitions around one of the second base, was hot
\* removed
C17_Witness ==
    /\ hotArg = 1
    /\ Len(hotList) = 3
    /\ hotList[1].base = 1 /\ hotList[2].base = 2 /\ hotList[3].base = 1
    /\ hotList[1].unregs = 1 /\ hotList[2].unregs = 0 /\ hotList[3].unregs = 1
    /\ hotRef[1] = 2

\* ===================================================================
\* The channel trampolines (specification SpecCh)
\* ===================================================================
\* the ctx_buf the thread library allocates for the channel of partition p
CtxBuf(p) == <<"ctx_buf", p>>

\* a call in the trace of a trampoline
Call(fn, args) == [fn |-> fn, args |-> args]

\* a trampoline that reports success whatever the consumer's hook returned
CreateResultSuccess(hook_rc) == 0

\* "return part->internal.base->ch_create_cb(io_device, ctx_buf)"
CreateResult(hook_rc) == hook_rc

\* what a consumer's create hook may return
HookResults == {0, -1, -ENOMEM}

\* registered partitions without channels, over a base with or without hooks
ChInit ==
    /\ LifeConstructed
    /\ IoIdle
    /\ CapIdle
    /\ UuidIdle
    /\ HotIdle
    /\ chHooks \in [create : BOOLEAN, destroy : BOOLEAN]
    /\ chan = [p \in Parts |-> [state |-> "none", base_ch |-> "null"]]
    /\ baseChHeld = 0
    /\ chFailed = 0
    /\ chLast = NoChCall

\* bdev_part_channel_create_cb(io_device, ctx_buf) for the channel of partition
\* io_device; get_ok says whether spdk_bdev_get_io_channel returns a channel and
\* hook_rc is what base->ch_create_cb would return. When the trampoline fails
\* the thread library drops the channel without calling the destroy trampoline.
bdev_part_channel_create_cb(io_device, get_ok, hook_rc) ==
    LET ctx_buf == CtxBuf(io_device)
        get == Call("spdk_bdev_get_io_channel", <<"base_desc">>)
        hooked == get_ok /\ chHooks.create
        ret == IF ~get_ok THEN -1
               ELSE IF chHooks.create THEN CreateResult(hook_rc)
               ELSE 0
    IN
    /\ UNCHANGED <<lifeVars, ioVars, outBase, capVars, uuidVars, hotVars>>
    /\ chan[io_device].state = "none"
    /\ ~hooked => hook_rc = 0
    /\ ret # 0 => chFailed < MaxFail
    /\ chLast' = [op |-> "bdev_part_channel_create_cb", args |-> <<io_device, ctx_buf>>,
                  get_ok |-> get_ok, hook_rc |-> hook_rc, ret |-> ret,
                  ev |-> IF hooked
                         THEN <<get, Call("ch_create_cb", <<io_device, ctx_buf>>)>>
                         ELSE <<get>>]
    /\ baseChHeld' = IF get_ok THEN baseChHeld + 1 ELSE baseChHeld
    /\ chan' = [chan EXCEPT ![io_device] =
                   IF ret = 0 THEN [state |-> "created", base_ch |-> "held"]
                   ELSE [state |-> "none", base_ch |-> "null"]]
    /\ chFailed' = IF ret # 0 THEN chFailed + 1 ELSE chFailed
    /\ UNCHANGED chHooks

\* bdev_part_channel_destroy_cb(io_device, ctx_buf): the last reference on the
\* channel of partition io_device was put
bdev_part_channel_destroy_cb(io_device) ==
    LET ctx_buf == CtxBuf(io_device)
        put == Call("spdk_put_io_channel", <<chan[io_device].base_ch>>)
    IN
    /\ UNCHANGED <<lifeVars, ioVars, outBase, capVars, uuidVars, hotVars>>
    /\ chan[io_device].state = "created"
    /\ chLast' = [op |-> "bdev_part_channel_destroy_cb", args |-> <<io_device, ctx_buf>>,
                  get_ok |-> FALSE, hook_rc |-> 0, ret |-> 0,
                  ev |-> IF chHooks.destroy
                         THEN <<Call("ch_destroy_cb", <<io_device, ctx_buf>>), put>>
                         ELSE <<put>>]
    /\ baseChHeld' = baseChHeld - 1
    /\ chan' = [chan EXCEPT ![io_device] = [state |-> "none", base_ch |-> "null"]]
    /\ UNCHANGED <<chHooks, chFailed>>

ChNext ==
    \/ \E io_device \in Parts, get_ok \in BOOLEAN, hook_rc \in HookResults :
          bdev_part_channel_create_cb(io_device, get_ok, hook_rc)
    \/ \E io_device \in Parts : bdev_part_channel_destroy_cb(io_device)

SpecCh == ChInit /\ [][ChNext]_vars

\* C19: bdev_part_channel_create_cb first gets a channel of the base bdev; when
\* that fails it returns -1 and the consumer's create hook does not run; when it
\* succeeds and the base has a create hook, the hook runs next, with the
\* trampoline's io_device and ctx_buf, and the trampoline returns what the hook
\* returned; without a hook the trampoline returns 0.
C19_CreateTrampoline ==
    chLast.op = "bdev_part_channel_create_cb" =>
        /\ chLast.ev[1] = Call("spdk_bdev_get_io_channel", <<"base_desc">>)
        /\ ~chLast.get_ok => (chLast.ret = -1 /\ Len(chLast.ev) = 1)
        /\ (chLast.get_ok /\ chHooks.create)
              => /\ chLast.ev = <<chLast.ev[1], Call("ch_create_cb", chLast.args)>>
                 /\ chLast.ret = chLast.hook_rc
        /\ (chLast.get_ok /\ ~chHooks.create) => (chLast.ret = 0 /\ Len(chLast.ev) = 1)

\* the create hook of the second partition's channel ran after the base channel
\* was obtained and failed with an error of its own, while the first
\* partition's channel exists
C19_Witness ==
    /\ chLast.op = "bdev_part_channel_create_cb"
    /\ chLast.args = <<2, CtxBuf(2)>>
    /\ chLast.get_ok
    /\ chHooks.create
    /\ chLast.ret = -ENOMEM
    /\ Len(chLast.ev) = 2
    /\ chan[1].state = "created"

\* C11: when the reference tag remap of a write fails,
\* spdk_bdev_part_submit_request_ext returns SPDK_BDEV_IO_STATUS_FAILED at once,
\* issues nothing to the base bdev, and no completion (default or override) is
\* invoked for the request.
C11_WriteRemapFailureRejects ==
    /\ (/\ ioPc # "new"
        /\ partIo.type = "write"
        /\ partIo.reftag
        /\ ~partIo.ctx_ok)
          => (ioPc = "rejected" /\ ioEv = <<"remap_dif_failed">>)
    /\ ioEv = <<"remap_dif_failed">>
          => /\ partIo.type = "write"
             /\ ioPc = "rejected"
             /\ submitRet = SPDK_BDEV_IO_STATUS_FAILED
             /\ baseIo = NoIo
             /\ userCb = <<>>
             /\ defaultCb = <<>>
             /\ freeIoCalls = 0

\* a write of two blocks was rejected after the remap rewrote the first tag and
\* stopped at the wrong second one, an override completion having been passed
C11_Witness ==
    /\ ioEv = <<"remap_dif_failed">>
    /\ partIo.split
    /\ partIo.ctx_ok
    /\ partIo.num_blocks = 2
    /\ buf[1] = U32(partIo.offset_blocks + ioPart.offset_blocks)
    /\ buf[2] # U32(partIo.offset_blocks + 1)

\* C12: the completion handler of an issued operation completes the original
\* request exactly once, through the stored override when one was passed at
\* submit and otherwise through the default completion with the status of the
\* base operation, never both and never neither, and releases the base I/O
\* exactly once, after that completion.
C12_CompletedOnceThenReleased ==
    /\ ioPc = "completed" =>
          /\ baseIo # NoIo
          /\ freeIoCalls = 1
          /\ Len(userCb) + Len(defaultCb) = 1
          /\ partIo.split => (Len(userCb) = 1 /\ ioEv = <<"stored_user_cb", "free_io">>)
          /\ ~partIo.split
                => /\ defaultCb = <<CompleteBaseIoStatus(complInfo.success)>>
                   /\ ioEv = <<"complete_base_io_status", "free_io">>
    /\ ioPc # "completed" => (userCb = <<>> /\ defaultCb = <<>> /\ freeIoCalls = 0)
    /\ baseIo # NoIo => ioPc \in {"inflight", "completed"}

\* a failed base operation was completed through the stored override
C12_Witness ==
    /\ ioPc = "completed"
    /\ partIo.split
    /\ userCb = <<FALSE>>
    /\ ~complInfo.success
    /\ freeIoCalls = 1

\* C16: a request of an I/O type the switch does not name is rejected by
\* spdk_bdev_part_submit_request_ext with SPDK_BDEV_IO_STATUS_FAILED: nothing is
\* issued to the base bdev and no completion is invoked.
C16_UnknownTypeRejected ==
    (ioPc # "new" /\ partIo.type \in {"nvme_admin", "seek_data"})
        => /\ ioPc = "rejected"
           /\ ioEv = <<"unknown_io_type">>
           /\ submitRet = SPDK_BDEV_IO_STATUS_FAILED
           /\ baseIo = NoIo
           /\ userCb = <<>>
           /\ defaultCb = <<>>
           /\ freeIoCalls = 0

\* a request of an unnamed type was rejected, an override completion having
\* been passed
C16_Witness ==
    /\ ioPc = "rejected"
    /\ partIo.type = "seek_data"
    /\ partIo.split
    /\ submitRet = SPDK_BDEV_IO_STATUS_FAILED

\* C14: with reference tag checking, blocks written through a partition at
\* offset o (tags remapped from o to o + p before the write is issued) and read
\* back through the same partition at offset o (tags remapped from o + p to o
\* in the completion) come back with the tags the consumer wrote, those of the
\* partition's offsets: the base bdev holds the tags of its own offsets in
\* between, and the read remap does not fail.
C14_RemapRoundTrip ==
    (readBack /\ partIo.reftag) =>
        /\ userTags = GoodTags(partIo.offset_blocks, partIo.num_blocks)
        /\ DiskRange(disk, partIo.offset_blocks + ioPart.offset_blocks, partIo.num_blocks)
              = GoodTags(partIo.offset_blocks + ioPart.offset_blocks, partIo.num_blocks)
        /\ (ioPc = "completed" /\ complInfo.success)
              => (complInfo.remap_rc = 0 /\ buf = userTags)

\* two blocks were read back at an offset where the tags of the base bdev's
\* offsets differ from those of the partition's, the second one wrapped
C14_Witness ==
    /\ readBack
    /\ partIo.reftag
    /\ ioPc = "completed"
    /\ complInfo.success
    /\ partIo.num_blocks = 2
    /\ buf = userTags
    /\ DiskRange(disk, baseIo.offset, 2) # userTags
    /\ baseIo.offset + 1 # U32(baseIo.offset + 1)

\* C18: when spdk_bdev_open_ext fails, spdk_bdev_part_base_construct_ext closes
\* no descriptor and dispatches no close, and leaves the caller's *_base unset;
\* on -ENODEV the base record is freed without the consumer's free callback, on
\* any other error spdk_bdev_part_base_free tears the base down and the free
\* callback runs exactly once.
C18_OpenFailureTeardown ==
    (lastOp.op = "spdk_bdev_part_base_construct_ext" /\ lastOp.ret # 0) =>
        /\ outBase = "unset"
        /\ baseState = "freed"
        /\ desc = "null"
        /\ closeCount = 0
        /\ closeTriggers = 0
        /\ \A t \in Threads : msgq[t] = <<>>
        /\ lastOp.ret = -ENODEV => (freeFnCalls = 0 /\ ev = <<"open", "free_base">>)
        /\ lastOp.ret # -ENODEV
              => (freeFnCalls = 1 /\ ev = <<"open", "base_free_fn", "free_base">>)

\* the open failed with an error other than -ENODEV on the second thread
C18_Witness ==
    /\ lastOp.op = "spdk_bdev_part_base_construct_ext"
    /\ lastOp.ret = -ENOMEM
    /\ lastOp.thread = 2
    /\ freeFnCalls = 1
    /\ baseState = "freed"

\* C20: between calls, base->ref of a live base equals the number of partitions
\* in the list: those registered, including the ones whose destruction was
\* requested and whose bdev_part_free_cb has not run yet, and none of those
\* whose construction failed.
C20_RefCountsListedPartitions ==
    baseState = "live" =>
        /\ ref = Len(tailq)
        /\ ref = Cardinality({p \in Parts : partState[p] \in {"registered", "freeing"}})
        /\ \A p \in Parts : InSeq(tailq, p) <=> partState[p] \in {"registered", "freeing"}
        /\ \A i, j \in 1..Len(tailq) : tailq[i] = tailq[j] => i = j

\* two partitions are listed, the destruction of one was requested and its
\* callback is pending, and a construction has failed
C20_Witness ==
    /\ baseState = "live"
    /\ ref = 2
    /\ nFailed >= 1
    /\ \E p \in Parts : partState[p] = "freeing"
    /\ \E p \in Parts : partState[p] = "registered"

\* the partitions whose channel exists
CreatedChannels == {p \in Parts : chan[p].state = "created"}

\* C21: every channel of the base bdev that bdev_part_channel_create_cb gets is
\* put exactly once: after a create trampoline that returned failure, also one
\* whose create hook failed once the base channel was obtained, no reference on
\* the base bdev's channel is left held for it, so the references held are those
\* of the channels that exist; and the destroy trampoline puts the base channel
\* once, after the consumer's destroy hook has run.
C21_BaseChannelReleasedOnce ==
    /\ baseChHeld = Cardinality(CreatedChannels)
    /\ \A p \in Parts : chan[p].state = "created" <=> chan[p].base_ch = "held"
    /\ (chLast.op = "bdev_part_channel_create_cb" /\ chLast.ret # 0)
          => chan[chLast.args[1]].state = "none"
    /\ chLast.op = "bdev_part_channel_destroy_cb"
          => /\ chLast.ev[Len(chLast.ev)] = Call("spdk_put_io_channel", <<"held">>)
             /\ Len(chLast.ev) = (IF chHooks.destroy THEN 2 ELSE 1)
             /\ chHooks.destroy => chLast.ev[1] = Call("ch_destroy_cb", chLast.args)
====
